---- MODULE Spec2Model ----
(***************************************************************************)
(* Krist: the legacy plaintext query handler, the /work/detailed handler,  *)
(* the websocket logout handler, and the ledger / name state they read.    *)
(*                                                                         *)
(* The module holds several specifications over one set of variables; each *)
(* specification drives one group of variables and leaves the others at    *)
(* their idle values:                                                      *)
(*   SpecWs       websocket sessions: login (external), logout, address    *)
(*   SpecLedger   TransactionLog.commit over the address store             *)
(*   SpecLegacy   GET / with getbalance, alert, richapi, listtx            *)
(*   SpecLegacyFair  the same, every awaited lookup eventually resumed     *)
(*   SpecWork     GET /work/detailed interleaved with blocks and purchases *)
(*   SpecForecast the decrease computation of /work/detailed as a function *)
(*   SpecRender   the listtx row loop as a function of the rows it is given *)
(***************************************************************************)
EXTENDS Integers, Sequences, FiniteSets

VARIABLES
  ws,            \* connection -> [auth, isGuest]            (ws.auth, ws.isGuest)
  wsReply,       \* connection -> value the last handler returned
  wsLogged,      \* connection -> session named by the last "logged out" line
  wsCount,       \* connection -> number of messages handled
  wsLast,        \* connection -> type of the last message handled
  addresses,     \* address id -> row of the address store, or NoRow
  transactions,  \* the transaction log, oldest first
  names,         \* name -> unpaid countdown
  nextId,        \* the id the next committed transaction gets
  txn,           \* the commit in progress
  lastCommit,    \* outcome of the last finished commit attempt
  lastBlock,     \* id of the last block
  work,          \* the current work (difficulty)
  req,           \* the GET / request being served
  workReq,       \* the GET /work/detailed request being served
  du,            \* a result of names.getDetailedUnpaid()
  decrease,      \* the decrease object computed from du
  listing,       \* the rows handed to the listtx loop, with address and flags
  out            \* the text the listtx loop has produced

wsVars     == <<ws, wsReply, wsLogged, wsCount, wsLast>>
ledgerVars == <<addresses, transactions, names, nextId, txn, lastCommit>>
legacyVars == <<req>>
workVars   == <<lastBlock, work, workReq>>
fcVars     == <<du, decrease>>
renderVars == <<listing, out>>
vars == <<ws, wsReply, wsLogged, wsCount, wsLast, addresses, transactions,
          names, nextId, txn, lastCommit, lastBlock, work, req, workReq, du,
          decrease,
          listing, out>>

(***************************************************************************)
(* Bounds                                                                  *)
(***************************************************************************)
MaxConns == 2
MaxMsgs == 2
MaxTx == 1
MaxValue == 1
MaxNames == 2
MaxBlocks == 3
MaxGroups == 3
MaxCountdown == 3
MaxCount == 2
MaxRows == 2

NULL == "null"

(***************************************************************************)
(* Address ids: canonical 10-character identifiers.                        *)
(***************************************************************************)
AddressIds == {"0000000000", "a5dfb396d3", "kunknown00"}

(***************************************************************************)
(* Websocket sessions                                                      *)
(***************************************************************************)
Conns == 1..MaxConns

GuestSession == [auth |-> "guest", isGuest |-> TRUE]

NoReply == [none |-> TRUE]

WsIdle ==
  /\ ws = [c \in Conns |-> GuestSession]
  /\ wsReply = [c \in Conns |-> NoReply]
  /\ wsLogged = [c \in Conns |-> NULL]
  /\ wsCount = [c \in Conns |-> 0]
  /\ wsLast = [c \in Conns |-> "none"]

\* The login handler: sets the session to the address the key derives.
Login(c, a) ==
  /\ wsCount[c] < MaxMsgs
  /\ ws' = [ws EXCEPT ![c] = [auth |-> a, isGuest |-> FALSE]]
  /\ wsReply' = [wsReply EXCEPT ![c] = [ok |-> TRUE, isGuest |-> FALSE, address |-> a]]
  /\ wsCount' = [wsCount EXCEPT ![c] = @ + 1]
  /\ wsLast' = [wsLast EXCEPT ![c] = "login"]
  /\ UNCHANGED wsLogged

\* A logout that downgrades the flag and keeps the authenticated address.
LogoutKeepsAuth(c) ==
  /\ wsCount[c] < MaxMsgs
  /\ wsLogged' = [wsLogged EXCEPT ![c] = ws[c].auth]
  /\ ws' = [ws EXCEPT ![c] = [auth |-> ws[c].auth, isGuest |-> TRUE]]
  /\ wsReply' = [wsReply EXCEPT ![c] = [ok |-> TRUE, isGuest |-> TRUE]]
  /\ wsCount' = [wsCount EXCEPT ![c] = @ + 1]
  /\ wsLast' = [wsLast EXCEPT ![c] = "logout"]

\* websockets.addMessageHandler("logout", ...)
Logout(c) ==
  /\ wsCount[c] < MaxMsgs
  /\ wsLogged' = [wsLogged EXCEPT ![c] = ws[c].auth]
  /\ ws' = [ws EXCEPT ![c] = [auth |-> "guest", isGuest |-> TRUE]]
  /\ wsReply' = [wsReply EXCEPT ![c] = [ok |-> TRUE, isGuest |-> TRUE]]
  /\ wsCount' = [wsCount EXCEPT ![c] = @ + 1]
  /\ wsLast' = [wsLast EXCEPT ![c] = "logout"]

(***************************************************************************)
(* The address store, the transaction log and the name countdowns          *)
(***************************************************************************)
NoRow == [none |-> TRUE]

\* Timestamps are minutes of February 2015: day d, hour h, minute m.
Minute(d, h, m) == ((d - 1) * 24 + h) * 60 + m

\* The commit timestamp of the transaction that gets id `id`.
Clock(id) == Minute(14, 20, 42) + id

\* Rows of the documented GET /addresses response.
DocumentedRows ==
  [a \in AddressIds |->
     CASE a = "0000000000" ->
            [balance |-> 0, totalin |-> 50, totalout |-> 50, alert |-> NULL,
             firstseen |-> Minute(14, 16, 44)]
       [] a = "a5dfb396d3" ->
            [balance |-> 30000, totalin |-> 100000, totalout |-> 130000,
             alert |-> NULL, firstseen |-> Minute(14, 20, 42)]
       [] OTHER -> NoRow]

Types == {"mined", "transfer", "name_purchase", "name_transfer", "name_a_record"}

NameMarkers == {"name", "a"}

Names == 1..MaxNames

NoName == 0

\* Countdown a purchase or transfer sets a name to.
UnpaidReset == 2

Values == 1..MaxValue

\* addresses.getAddress(address): the row, or a falsy value.
getAddress(store, a) == IF a \in DOMAIN store THEN store[a] ELSE NoRow

Known(store, a) == getAddress(store, a) # NoRow

BalanceOf(store, a) == IF Known(store, a) THEN store[a].balance ELSE 0

NoTxn == [pc |-> "idle"]

LedgerIdle ==
  /\ addresses = DocumentedRows
  /\ transactions = << >>
  /\ names = [n \in Names |-> 0]
  /\ nextId = 1
  /\ txn = NoTxn
  /\ lastCommit = [outcome |-> "none"]

Observable == <<addresses, transactions, nextId>>

Failed(outcome, f) ==
  [outcome |-> outcome, debited |-> f \in AddressIds, before |-> Observable]

\* AddressLedger.applyCommit, debit side, on a copy of the store.
ApplyDebit(store, a, v) ==
  [store EXCEPT ![a] = [@ EXCEPT !.balance = @ - v, !.totalout = @ + v]]

\* AddressLedger.applyCommit, credit side; the row is created on first touch.
ApplyCredit(store, a, v, at) ==
  IF Known(store, a)
  THEN [store EXCEPT ![a] = [@ EXCEPT !.balance = @ + v, !.totalin = @ + v]]
  ELSE [store EXCEPT ![a] =
          [balance |-> v, totalin |-> v, totalout |-> 0, alert |-> NULL,
           firstseen |-> at]]

\* NameEconomics.resetCountdown on name_purchase / name_transfer.
ResetCountdown(ns, type, n) ==
  IF type \in {"name_purchase", "name_transfer"} /\ n # NoName
  THEN [ns EXCEPT ![n] = UnpaidReset]
  ELSE ns

\* TransactionLog.commit, entry: the type is checked, the unit opens.
CommitBegin(f, t, v, type, n) ==
  /\ txn.pc = "idle"
  /\ Len(transactions) < MaxTx
  /\ IF type \notin Types
     THEN /\ lastCommit' = Failed("InvalidType", NULL)
          /\ UNCHANGED txn
     ELSE /\ txn' = [pc |-> "debit", from |-> f, to |-> t, value |-> v,
                     type |-> type, name |-> n, work |-> addresses,
                     before |-> Observable]
          /\ UNCHANGED lastCommit
  /\ UNCHANGED <<addresses, transactions, names, nextId>>

\* A debit that writes through to the store instead of the open unit.
CommitDebitWritesThrough ==
  /\ txn.pc = "debit"
  /\ IF txn.from \in AddressIds /\ BalanceOf(txn.work, txn.from) < txn.value
     THEN /\ lastCommit' = Failed("InsufficientBalance", NULL)
          /\ txn' = NoTxn
          /\ UNCHANGED addresses
     ELSE /\ txn' = [txn EXCEPT !.pc = "credit",
                       !.work = IF txn.from \in AddressIds
                                THEN ApplyDebit(@, txn.from, txn.value) ELSE @]
          /\ addresses' = IF txn.from \in AddressIds
                          THEN ApplyDebit(addresses, txn.from, txn.value)
                          ELSE addresses
          /\ UNCHANGED lastCommit
  /\ UNCHANGED <<transactions, names, nextId>>

\* TransactionLog.commit, debit of `from` when it is a real address.
CommitDebit ==
  /\ txn.pc = "debit"
  /\ IF txn.from \in AddressIds /\ BalanceOf(txn.work, txn.from) < txn.value
     THEN /\ lastCommit' = Failed("InsufficientBalance", NULL)
          /\ txn' = NoTxn
     ELSE /\ txn' = [txn EXCEPT !.pc = "credit",
                       !.work = IF txn.from \in AddressIds
                                THEN ApplyDebit(@, txn.from, txn.value) ELSE @]
          /\ UNCHANGED lastCommit
  /\ UNCHANGED <<addresses, transactions, names, nextId>>

\* A store fault after the debit and before the credit: the unit is dropped.
CommitFault ==
  /\ txn.pc = "credit"
  /\ lastCommit' = Failed("Internal", txn.from)
  /\ txn' = NoTxn
  /\ UNCHANGED <<addresses, transactions, names, nextId>>

\* TransactionLog.commit, credit of `to` when it is a real address.
CommitCredit ==
  /\ txn.pc = "credit"
  /\ txn' = [txn EXCEPT !.pc = "append",
               !.work = IF txn.to \in AddressIds
                        THEN ApplyCredit(@, txn.to, txn.value, Clock(nextId))
                        ELSE @]
  /\ UNCHANGED <<addresses, transactions, names, nextId, lastCommit>>

\* TransactionLog.commit, end: id, balances, record and countdown at once.
CommitFinish ==
  /\ txn.pc = "append"
  /\ addresses' = txn.work
  /\ transactions' = Append(transactions,
        [id |-> nextId, from |-> txn.from, to |-> txn.to, value |-> txn.value,
         time |-> Clock(nextId), name |-> txn.name, type |-> txn.type])
  /\ nextId' = nextId + 1
  /\ names' = ResetCountdown(names, txn.type, txn.name)
  /\ lastCommit' = [outcome |-> "ok", debited |-> txn.from \in AddressIds,
                    before |-> txn.before]
  /\ txn' = NoTxn

(***************************************************************************)
(* The websocket address handler                                           *)
(***************************************************************************)
\* The address parameter of an inbound message: an id, or absent.
AddressParams == AddressIds \cup {"<absent>"}

\* controllers/addresses.js getAddress: the row, or a typed error.
ControllerGetAddress(store, a) ==
  IF Known(store, a)
  THEN [ok |-> TRUE, row |-> getAddress(store, a)]
  ELSE [ok |-> FALSE, error |-> "address_not_found"]

\* controllers/addresses.js addressToJSON: the documented Address object.
addressToJSON(a, row) ==
  [address |-> a, balance |-> row.balance, totalin |-> row.totalin,
   totalout |-> row.totalout, firstseen |-> row.firstseen]

\* What the hub replies for the address handler: its result, or its error.
AddressReply(store, a) ==
  LET found == ControllerGetAddress(store, a)
  IN IF found.ok
     THEN [ok |-> TRUE, address |-> addressToJSON(a, found.row)]
     ELSE [ok |-> FALSE, error |-> found.error]

\* An address handler that also signs the connection in as the address found.
AddressAdoptsSession(c, a) ==
  /\ wsCount[c] < MaxMsgs
  /\ ws' = [ws EXCEPT ![c] = IF Known(addresses, a)
                             THEN [auth |-> a, isGuest |-> FALSE]
                             ELSE @]
  /\ wsReply' = [wsReply EXCEPT ![c] = AddressReply(addresses, a)]
  /\ wsCount' = [wsCount EXCEPT ![c] = @ + 1]
  /\ wsLast' = [wsLast EXCEPT ![c] = "address"]
  /\ UNCHANGED <<wsLogged, ledgerVars>>

\* websockets.addMessageHandler("address", ...)
Address(c, a) ==
  /\ wsCount[c] < MaxMsgs
  /\ wsReply' = [wsReply EXCEPT ![c] = AddressReply(addresses, a)]
  /\ wsCount' = [wsCount EXCEPT ![c] = @ + 1]
  /\ wsLast' = [wsLast EXCEPT ![c] = "address"]
  /\ UNCHANGED <<ws, wsLogged, ledgerVars>>

(***************************************************************************)
(* Idle values of the request-side variables                               *)
(***************************************************************************)
NoReq == [pc |-> "idle"]

LegacyIdle == req = NoReq

WorkIdle == lastBlock = 1 /\ work = 92861 /\ workReq = NoReq

Uncomputed == [none |-> TRUE]

ForecastIdle == du = << >> /\ decrease = Uncomputed

RenderIdle == listing = NoReq /\ out = ""

(***************************************************************************)
(* SpecWs                                                                  *)
(***************************************************************************)
InitWs ==
  WsIdle /\ LedgerIdle /\ LegacyIdle /\ WorkIdle /\ ForecastIdle /\ RenderIdle

NextWs ==
  \/ /\ \/ \E c \in Conns, a \in AddressIds : Login(c, a)
        \/ \E c \in Conns : Logout(c)
     /\ UNCHANGED <<ledgerVars, legacyVars, workVars, fcVars, renderVars>>
  \/ /\ \E c \in Conns, a \in AddressParams : Address(c, a)
     /\ UNCHANGED <<legacyVars, workVars, fcVars, renderVars>>

SpecWs == InitWs /\ [][NextWs]_vars

(***************************************************************************)
(* SpecLedger                                                              *)
(***************************************************************************)
InitLedger == InitWs

\* The name a name commit is about.
CommitNames == {n \in Names : n = 1}

Commit ==
  \/ \E f \in AddressIds \cup {NULL}, t \in AddressIds \cup NameMarkers,
        v \in Values, type \in Types \cup {"bogus"},
        n \in CommitNames \cup {NoName} :
        /\ (n # NoName) <=> (type \in {"name_purchase", "name_transfer", "name_a_record"})
        /\ CommitBegin(f, t, v, type, n)
  \/ CommitDebit
  \/ CommitFault
  \/ CommitCredit
  \/ CommitFinish

NextLedger ==
  /\ Commit
  /\ UNCHANGED <<wsVars, legacyVars, workVars, fcVars, renderVars>>

SpecLedger == InitLedger /\ [][NextLedger]_vars

\* C3: for every address at every observable point,
\* balance == totalin - totalout.
C3_BalanceIsInMinusOut ==
  \A a \in AddressIds :
    Known(addresses, a) =>
      addresses[a].balance = addresses[a].totalin - addresses[a].totalout

\* C4: a commit that fails part-way (InsufficientBalance, InvalidType, a store
\* fault after the debit and before the credit) leaves the balances, totalin,
\* totalout, the transaction log and the next id as they were before the
\* commit, and while a commit is in progress no reader sees a partial change.
C4_FailedCommitLeavesNoTrace ==
  /\ txn.pc # "idle" => Observable = txn.before
  /\ lastCommit.outcome \in {"InsufficientBalance", "InvalidType", "Internal"}
       => Observable = lastCommit.before

\* A store fault hit a commit whose debit had been applied to a real address.
C4_Witness ==
  /\ lastCommit.outcome = "Internal"
  /\ lastCommit.debited
  /\ txn.pc = "idle"

(***************************************************************************)
(* Text conversions                                                        *)
(***************************************************************************)
Digit(d) ==
  CASE d = 0 -> "0" [] d = 1 -> "1" [] d = 2 -> "2" [] d = 3 -> "3"
    [] d = 4 -> "4" [] d = 5 -> "5" [] d = 6 -> "6" [] d = 7 -> "7"
    [] d = 8 -> "8" [] d = 9 -> "9"

RECURSIVE Digits(_)
Digits(n) == IF n < 10 THEN Digit(n) ELSE Digits(n \div 10) \o Digit(n % 10)

\* Number.prototype.toString() of an integer.
toString(n) == IF n < 0 THEN "-" \o Digits(0 - n) ELSE Digits(n)

RECURSIVE Zeros(_)
Zeros(k) == IF k <= 0 THEN "" ELSE "0" \o Zeros(k - 1)

\* utils.padDigits(number, digits): zeros on the left up to `digits` characters.
padDigits(n, digits) == Zeros(digits - Len(toString(n))) \o toString(n)

\* moment(time).format("MMM DD HH:mm")
FormatTime(t) ==
  "Feb " \o padDigits(t \div 1440 + 1, 2) \o " "
         \o padDigits((t % 1440) \div 60, 2) \o ":" \o padDigits(t % 60, 2)

\* moment(firstseen).format("DD MMM YYYY")
FormatDate(t) == padDigits(t \div 1440 + 1, 2) \o " Feb 2015"

\* String.prototype.substr(0, 10)
Substr10(str) == IF Len(str) <= 10 THEN str ELSE SubSeq(str, 1, 10)

(***************************************************************************)
(* GET / : the legacy plaintext queries                                    *)
(***************************************************************************)
UNDEF == "<undefined>"

\* A query parameter is truthy when it is present and not empty.
Truthy(x) == x \notin {UNDEF, ""}

Defined(x) == x # UNDEF

PrivateKeys == {"key-of-a5dfb396d3", "key-of-0000000000", "key-of-kunknown00"}

\* krist.makeV2Address(key): the address a private key derives.
makeV2Address(key) ==
  CASE key = "key-of-a5dfb396d3" -> "a5dfb396d3"
    [] key = "key-of-0000000000" -> "0000000000"
    [] OTHER -> "kunknown00"

\* Address ids in ascending order.
AddressOrder == <<"0000000000", "a5dfb396d3", "kunknown00">>

RECURSIVE RichFrom(_, _)
\* addresses.getRich(): the known addresses, balance descending, ties by id.
RichFrom(store, left) ==
  IF left = {} THEN << >>
  ELSE LET best == CHOOSE i \in left : \A j \in left :
                     \/ store[AddressOrder[i]].balance > store[AddressOrder[j]].balance
                     \/ /\ store[AddressOrder[i]].balance = store[AddressOrder[j]].balance
                        /\ i <= j
       IN <<AddressOrder[best]>> \o RichFrom(store, left \ {best})

getRich(store) ==
  RichFrom(store, {i \in DOMAIN AddressOrder : Known(store, AddressOrder[i])})

RECURSIVE RichText(_, _)
\* The richapi loop over results.rows.
RichText(store, rows) ==
  IF rows = << >> THEN ""
  ELSE Substr10(Head(rows)) \o padDigits(store[Head(rows)].balance, 8)
         \o FormatDate(store[Head(rows)].firstseen)
         \o RichText(store, Tail(rows))

\* res.send(body): a null body is sent as the empty string.
SendBody(body) == IF body = NULL THEN "" ELSE body

\* The branch of the handler a query enters, by the order of its tests.
Mode(q) ==
  IF Truthy(q.getbalance) THEN "getbalance"
  ELSE IF Truthy(q.alert) THEN "alert"
  ELSE IF Defined(q.richapi) THEN "richapi"
  ELSE IF Truthy(q.listtx) THEN "listtx"
  ELSE "next"

\* The handler runs to the await of its branch, or falls through to next().
LegacyReceive(q) ==
  /\ req.pc = "idle"
  /\ req' = [query |-> q, sent |-> << >>,
             next |-> Mode(q) = "next",
             pc |-> IF Mode(q) = "next" THEN "done" ELSE Mode(q)]

\* A getbalance that pads the balance the way richapi does.
GetBalanceResumePadded ==
  /\ req.pc = "getbalance"
  /\ LET address == getAddress(addresses, req.query.getbalance)
     IN req' = [req EXCEPT !.pc = "done",
                  !.sent = Append(@, IF address # NoRow
                                     THEN padDigits(address.balance, 8) ELSE "0")]

\* if (req.query.getbalance) { ... }
GetBalanceResume ==
  /\ req.pc = "getbalance"
  /\ LET address == getAddress(addresses, req.query.getbalance)
     IN req' = [req EXCEPT !.pc = "done",
                  !.sent = Append(@, IF address # NoRow
                                     THEN toString(address.balance) ELSE "0")]

\* if (req.query.alert) { ... }
AlertResume ==
  /\ req.pc = "alert"
  /\ LET from == makeV2Address(req.query.alert)
         address == getAddress(addresses, from)
     IN req' = [req EXCEPT !.pc = "done",
                  !.sent = Append(@, IF address # NoRow
                                     THEN SendBody(address.alert) ELSE "")]

\* if (typeof req.query.richapi !== "undefined") { ... }
RichApiResume ==
  /\ req.pc = "richapi"
  /\ req' = [req EXCEPT !.pc = "done",
               !.sent = Append(@, RichText(addresses, getRich(addresses)))]

\* if (req.query.listtx) { ... }: tx.getTransactionsByAddress(...) is not
\* awaited, so `results` is the pending promise, results.rows is undefined
\* and results.rows.forEach throws before anything is sent.
ListTxResume ==
  /\ req.pc = "listtx"
  /\ LET address == getAddress(addresses, req.query.listtx)
     IN IF address # NoRow
        THEN req' = [req EXCEPT !.pc = "rejected"]
        ELSE req' = [req EXCEPT !.pc = "done", !.sent = Append(@, "Error4")]

(***************************************************************************)
(* listtx: the rows of an address and their fixed-width rendering          *)
(***************************************************************************)
RECURSIVE RowsOf(_, _, _)
\* Rows of `log` that name address `a`, most recent first; mined rows are
\* left out unless includeMined.
RowsOf(log, a, includeMined) ==
  IF log = << >> THEN << >>
  ELSE LET last == log[Len(log)]
           rest == RowsOf(SubSeq(log, 1, Len(log) - 1), a, includeMined)
       IN IF (last.from = a \/ last.to = a)
             /\ (includeMined \/ last.type # "mined")
          THEN <<last>> \o rest
          ELSE rest

\* tx.getTransactionsByAddress(address, limit, offset, includeMined), resolved.
getTransactionsByAddress(log, a, limit, offset, includeMined) ==
  LET all == RowsOf(log, a, includeMined)
  IN SubSeq(all, offset + 1,
            IF Len(all) < offset + limit THEN Len(all) ELSE offset + limit)

\* !x for a string or null
Falsy(x) == x \in {NULL, UNDEF, ""}

\* A callback that gives a credit "-" and a debit "+".
RenderRowSignsSwapped(transaction, address, wantId) ==
  LET peer0 == IF transaction.to = address THEN transaction.from
               ELSE IF transaction.from = address THEN transaction.to
               ELSE ""
      sign == IF transaction.to = address THEN "-"
              ELSE IF transaction.from = address THEN "+"
              ELSE ""
      peer1 == IF Falsy(transaction.from) \/ Len(transaction.from) < 10
               THEN "N/A(Mined)" ELSE peer0
      peer == IF Falsy(transaction.to) \/ Len(transaction.to) < 10
              THEN "N/A(Names)" ELSE peer1
  IN FormatTime(transaction.time) \o peer \o sign
       \o padDigits(transaction.value, 8)
       \o (IF wantId THEN padDigits(transaction.id, 8) ELSE "")

\* The record the forEach callback appends for one transaction.
RenderRow(transaction, address, wantId) ==
  LET peer0 == IF transaction.to = address THEN transaction.from
               ELSE IF transaction.from = address THEN transaction.to
               ELSE ""
      sign == IF transaction.to = address THEN "+"
              ELSE IF transaction.from = address THEN "-"
              ELSE ""
      peer1 == IF Falsy(transaction.from) \/ Len(transaction.from) < 10
               THEN "N/A(Mined)" ELSE peer0
      peer == IF Falsy(transaction.to) \/ Len(transaction.to) < 10
              THEN "N/A(Names)" ELSE peer1
  IN FormatTime(transaction.time) \o peer \o sign
       \o padDigits(transaction.value, 8)
       \o (IF wantId THEN padDigits(transaction.id, 8) ELSE "")

RECURSIVE ListTxText(_, _, _)
\* The text listtx is to send for resolved rows: every record, then "end".
ListTxText(rows, address, wantId) ==
  IF rows = << >> THEN "end"
  ELSE RenderRow(Head(rows), address, wantId)
         \o ListTxText(Tail(rows), address, wantId)

ListTxLimit(q) == IF Defined(q.overview) THEN 3 ELSE 500

(***************************************************************************)
(* SpecLegacy                                                              *)
(***************************************************************************)
Alerts == {NULL, "Krist is moving"}

\* Stores a request can meet: each documented row present or absent, with or
\* without an alert; kunknown00 is never present.
LegacyStores ==
  {st \in [AddressIds -> {NoRow} \cup
            {[DocumentedRows[a] EXCEPT !.alert = al] :
               a \in {"0000000000", "a5dfb396d3"}, al \in Alerts}] :
     \A a \in AddressIds :
       st[a] # NoRow => /\ DocumentedRows[a] # NoRow
                        /\ st[a].firstseen = DocumentedRows[a].firstseen}

Tx(id, f, t, v, type, n) ==
  [id |-> id, from |-> f, to |-> t, value |-> v, time |-> Clock(id),
   name |-> n, type |-> type]

SampleLogs ==
  { << >>,
    << Tx(1, NULL, "a5dfb396d3", 25, "mined", NoName),
       Tx(2, "a5dfb396d3", "0000000000", 50, "transfer", NoName),
       Tx(3, "a5dfb396d3", "name", 500, "name_purchase", 1),
       Tx(4, "0000000000", "a5dfb396d3", 75, "transfer", NoName) >> }

Queries ==
  [getbalance : {UNDEF, ""} \cup AddressIds,
   alert      : {UNDEF, ""} \cup PrivateKeys,
   richapi    : {UNDEF, ""},
   listtx     : {UNDEF, ""} \cup AddressIds,
   overview   : {UNDEF, ""},
   id         : {UNDEF, ""}]

InitLegacy ==
  /\ WsIdle /\ LegacyIdle /\ WorkIdle /\ ForecastIdle /\ RenderIdle
  /\ addresses \in LegacyStores
  /\ transactions \in SampleLogs
  /\ names = [n \in Names |-> 0]
  /\ nextId = Len(transactions) + 1
  /\ txn = NoTxn
  /\ lastCommit = [outcome |-> "none"]

NextLegacy ==
  /\ \/ \E q \in Queries : LegacyReceive(q)
     \/ GetBalanceResume
     \/ AlertResume
     \/ RichApiResume
     \/ ListTxResume
  /\ UNCHANGED <<wsVars, ledgerVars, workVars, fcVars, renderVars>>

SpecLegacy == InitLegacy /\ [][NextLegacy]_vars

\* The request has ended, with a response, with next(), or by throwing.
Ended == req.pc \in {"done", "rejected"}

\* The request carries the mode parameter `p` and no other mode parameter.
Only(p) ==
  /\ Ended
  /\ Truthy(req.query[p])
  /\ \A o \in {"getbalance", "alert", "richapi", "listtx"} \ {p} :
       req.query[o] = UNDEF

DigitChars == {"0", "1", "2", "3", "4", "5", "6", "7", "8", "9"}

\* A bare decimal: digits only, no sign, no padding.
IsBareDecimal(str) ==
  /\ Len(str) >= 1
  /\ \A i \in 1..Len(str) : SubSeq(str, i, i) \in DigitChars
  /\ Len(str) > 1 => SubSeq(str, 1, 1) # "0"

DigitValue(ch) == CHOOSE d \in 0..9 : Digit(d) = ch

RECURSIVE ParseDecimal(_)
ParseDecimal(str) ==
  IF Len(str) = 0 THEN 0
  ELSE 10 * ParseDecimal(SubSeq(str, 1, Len(str) - 1))
         + DigitValue(SubSeq(str, Len(str), Len(str)))

\* C6: on the legacy endpoint an unknown address gets a fixed sentinel and
\* never an error: getbalance "0", alert "", listtx "Error4"; a known address
\* gets its balance as a bare decimal string from getbalance and its stored
\* alert text from alert.
C6_LegacySentinels ==
  /\ Only("getbalance") =>
       /\ req.pc = "done" /\ Len(req.sent) = 1
       /\ IF Known(addresses, req.query.getbalance)
          THEN /\ IsBareDecimal(req.sent[1])
               /\ ParseDecimal(req.sent[1]) = addresses[req.query.getbalance].balance
          ELSE req.sent[1] = "0"
  /\ Only("alert") =>
       /\ req.pc = "done" /\ Len(req.sent) = 1
       /\ LET a == makeV2Address(req.query.alert)
          IN req.sent[1] = IF Known(addresses, a) /\ addresses[a].alert # NULL
                           THEN addresses[a].alert ELSE ""
  /\ (Only("listtx") /\ ~Known(addresses, req.query.listtx)) =>
       req.pc = "done" /\ req.sent = <<"Error4">>

\* getbalance answered for a known address holding a non-zero balance.
C6_Witness ==
  /\ Only("getbalance")
  /\ Known(addresses, req.query.getbalance)
  /\ addresses[req.query.getbalance].balance > 0
  /\ req.sent = <<"30000">>

\* C7: a listtx request naming a known address is answered with one record
\* per transaction of the address (most recent first, mined included, at most
\* 500, or 3 with overview) followed by "end"; "end" alone when it has none.
C7_ListTxResponse ==
  (Only("listtx") /\ Known(addresses, req.query.listtx)) =>
    req.sent = << ListTxText(
                    getTransactionsByAddress(transactions, req.query.listtx,
                                             ListTxLimit(req.query), 0, TRUE),
                    req.query.listtx, Defined(req.query.id)) >>

(***************************************************************************)
(* SpecLegacyFair: GET / with every awaited lookup eventually resumed      *)
(***************************************************************************)
\* The continuation of the handler after the await of its branch.
LegacyResume ==
  /\ \/ GetBalanceResume
     \/ AlertResume
     \/ RichApiResume
     \/ ListTxResume
  /\ UNCHANGED <<wsVars, ledgerVars, workVars, fcVars, renderVars>>

SpecLegacyFair == SpecLegacy /\ WF_vars(LegacyResume)

\* The request carries mode parameter `p`, by the test the handler applies.
Carries(q, p) == IF p = "richapi" THEN Defined(q[p]) ELSE Truthy(q[p])

Precedence == <<"getbalance", "alert", "richapi", "listtx">>

\* The first mode of the precedence order the request carries, if any.
FirstCarried(q) ==
  IF \E i \in 1..Len(Precedence) : Carries(q, Precedence[i])
  THEN Precedence[CHOOSE i \in 1..Len(Precedence) :
                    /\ Carries(q, Precedence[i])
                    /\ \A j \in 1..(i - 1) : ~Carries(q, Precedence[j])]
  ELSE "next"

\* C12: every GET / request ends in exactly one outcome, one response sent or
\* next() called with nothing sent; the branch entered is the first of
\* getbalance, alert, richapi, listtx that the request carries; and every
\* request carrying one of them (listtx for a known address included)
\* eventually receives its response.
C12_OneOutcomeAndResponse ==
  /\ [][(req.pc = "idle" /\ req'.pc # "idle") =>
          IF FirstCarried(req'.query) = "next"
          THEN req'.pc = "done" /\ req'.next
          ELSE req'.pc = FirstCarried(req'.query) /\ ~req'.next]_vars
  /\ [](Ended => \/ Len(req.sent) = 1 /\ ~req.next
                 \/ req.sent = << >> /\ req.next)
  /\ (req.pc # "idle" /\ FirstCarried(req.query) # "next")
       ~> (req.pc = "done" /\ Len(req.sent) = 1)

(***************************************************************************)
(* SpecWs: the logout claim                                                *)
(***************************************************************************)
\* C1: whatever the session was, after the logout handler the session is guest
\* (auth = "guest", isGuest = true) and the result is {ok:true, isGuest:true};
\* a logout applied to the state a logout left changes nothing of the session
\* and returns the same result.
C1_LogoutYieldsGuest ==
  [][\A c \in Conns :
       (wsCount'[c] # wsCount[c] /\ wsLast'[c] = "logout") =>
         /\ ws'[c] = [auth |-> "guest", isGuest |-> TRUE]
         /\ wsReply'[c] = [ok |-> TRUE, isGuest |-> TRUE]
         /\ wsLast[c] = "logout" => (ws'[c] = ws[c] /\ wsReply'[c] = wsReply[c])
    ]_vars

\* One connection was logged out of an authenticated session, and a guest
\* session was logged out again.
C1_Witness ==
  \E c, d \in Conns :
    /\ wsLast[c] = "logout" /\ wsLogged[c] \in AddressIds
    /\ wsLast[d] = "logout" /\ wsLogged[d] = "guest" /\ wsCount[d] >= 2

(***************************************************************************)
(* SpecWs: the address handler claim                                       *)
(***************************************************************************)
\* C11: the websocket address handler is a pure read. Whatever the session of
\* the connection (guest or authenticated) and whatever the message, found or
\* not found, the step of the handler leaves every connection's session (auth,
\* isGuest) and the whole ledger state as they were; and the handler does not
\* look at the session: a guest gets the lookup's own answer, the Address
\* object or address_not_found.
C11_AddressIsPureRead ==
  [][\A c \in Conns :
       (wsCount'[c] # wsCount[c] /\ wsLast'[c] = "address") =>
         /\ ws' = ws
         /\ <<addresses, transactions, names, nextId, txn, lastCommit>>' =
              <<addresses, transactions, names, nextId, txn, lastCommit>>
         /\ \E a \in AddressParams :
              wsReply'[c] = AddressReply(addresses, a)
    ]_vars

\* A guest connection looked up a known address and got it, and a connection
\* with an authenticated session looked one up that was not found.
C11_Witness ==
  \E c, d \in Conns :
    /\ wsLast[c] = "address" /\ ws[c] = GuestSession
    /\ \E a \in AddressIds :
         /\ Known(addresses, a)
         /\ wsReply[c] = [ok |-> TRUE,
                          address |-> addressToJSON(a, addresses[a])]
    /\ wsLast[d] = "address" /\ ws[d].isGuest = FALSE
    /\ wsReply[d] = [ok |-> FALSE, error |-> "address_not_found"]

(***************************************************************************)
(* GET /work/detailed                                                      *)
(***************************************************************************)
\* names.getUnpaidNameCount(): the names whose countdown is above 0.
getUnpaidNameCount(ns) == Cardinality({n \in DOMAIN ns : ns[n] > 0})

\* Block id from which the base block value is the low step.
LowStepBlock == 2

\* blocks.getBaseBlockValue(blockId): the step schedule of the base value.
getBaseBlockValue(id) == IF id >= LowStepBlock THEN 1 ELSE 25

\* The groups of names.getDetailedUnpaid(): one {unpaid, count} per countdown
\* value some name has.
GroupsOf(ns) ==
  {[unpaid |-> u, count |-> Cardinality({n \in DOMAIN ns : ns[n] = u})] :
     u \in {ns[n] : n \in DOMAIN ns}}

\* The sequences that list every element of S once.
Orderings(S) ==
  {sq \in [1..Cardinality(S) -> S] : \A g \in S : \E i \in DOMAIN sq : sq[i] = g}

\* detailedUnpaid.find(u => u.unpaid > 0): the first such group in the order
\* of the array, or none.
FindPositive(groups) ==
  IF \E i \in DOMAIN groups : groups[i].unpaid > 0
  THEN groups[CHOOSE i \in DOMAIN groups :
                /\ groups[i].unpaid > 0
                /\ \A j \in 1..(i - 1) : groups[j].unpaid <= 0]
  ELSE Uncomputed

\* The head of detailedUnpaid.filter(u => u.unpaid > 0) sorted by unpaid
\* descending, or none.
MostUnpaid(groups) ==
  IF \E i \in DOMAIN groups : groups[i].unpaid > 0
  THEN groups[CHOOSE i \in DOMAIN groups :
                /\ groups[i].unpaid > 0
                /\ \A j \in DOMAIN groups : groups[j].unpaid <= groups[i].unpaid
                /\ \A j \in 1..(i - 1) : groups[j].unpaid < groups[i].unpaid]
  ELSE Uncomputed

\* The decrease object of the payload.
Decrease(groups) ==
  LET nextUnpaid == FindPositive(groups)
      mostUnpaid == MostUnpaid(groups)
  IN [value  |-> IF nextUnpaid # Uncomputed THEN nextUnpaid.count ELSE 0,
      blocks |-> IF nextUnpaid # Uncomputed THEN nextUnpaid.unpaid ELSE 0,
      reset  |-> IF mostUnpaid # Uncomputed THEN mostUnpaid.unpaid ELSE 0]

\* The request arrives; blocks.getLastBlock() is issued.
WorkReceive ==
  /\ workReq.pc \in {"idle", "responded"}
  /\ workReq' = [pc |-> "getLastBlock"]
  /\ UNCHANGED <<lastBlock, work, names>>

\* const lastBlock = await blocks.getLastBlock();
WorkGotLastBlock ==
  /\ workReq.pc = "getLastBlock"
  /\ workReq' = [pc |-> "getUnpaidNameCount", lastBlock |-> lastBlock]
  /\ UNCHANGED <<lastBlock, work, names>>

\* const unpaidNames = await names.getUnpaidNameCount();
\* const baseValue = blocks.getBaseBlockValue(lastBlock.id);
WorkGotUnpaidCount ==
  /\ workReq.pc = "getUnpaidNameCount"
  /\ workReq' = [pc |-> "getDetailedUnpaid", lastBlock |-> workReq.lastBlock,
                 unpaidNames |-> getUnpaidNameCount(names),
                 baseValue |-> getBaseBlockValue(workReq.lastBlock)]
  /\ UNCHANGED <<lastBlock, work, names>>

\* const detailedUnpaid = await names.getDetailedUnpaid(); nextUnpaid and
\* mostUnpaid are computed and krist.getWork() is issued.
WorkGotDetailed ==
  /\ workReq.pc = "getDetailedUnpaid"
  /\ \E detailedUnpaid \in Orderings(GroupsOf(names)) :
       workReq' = [pc |-> "getWork", lastBlock |-> workReq.lastBlock,
                   unpaidNames |-> workReq.unpaidNames,
                   baseValue |-> workReq.baseValue,
                   detailedUnpaid |-> detailedUnpaid,
                   decrease |-> Decrease(detailedUnpaid)]
  /\ UNCHANGED <<lastBlock, work, names>>

\* res.json({...}) once krist.getWork() has resolved.
WorkRespond ==
  /\ workReq.pc = "getWork"
  /\ workReq' = [pc |-> "responded",
                 detailedUnpaid |-> workReq.detailedUnpaid,
                 payload |-> [ok |-> TRUE, work |-> work,
                              unpaid |-> workReq.unpaidNames,
                              base_value |-> workReq.baseValue,
                              block_value |-> workReq.baseValue + workReq.unpaidNames,
                              decrease |-> workReq.decrease],
                 sentAt |-> [lastBlock |-> lastBlock,
                             unpaid |-> getUnpaidNameCount(names)]]
  /\ UNCHANGED <<lastBlock, work, names>>

Works == {92861, 18750}

\* A block is accepted: NameEconomics.onBlockMined() takes one off every
\* positive countdown, the block id advances, the work is set anew.
BlockMined ==
  /\ lastBlock < MaxBlocks
  /\ lastBlock' = lastBlock + 1
  /\ names' = [n \in DOMAIN names |-> IF names[n] > 0 THEN names[n] - 1 ELSE 0]
  /\ \E w \in Works : work' = w
  /\ UNCHANGED workReq

\* A name is bought or transferred: NameEconomics.resetCountdown(name).
NamePurchased(n) ==
  /\ names[n] # UnpaidReset
  /\ names' = ResetCountdown(names, "name_purchase", n)
  /\ UNCHANGED <<lastBlock, work, workReq>>

InitWork ==
  WsIdle /\ LedgerIdle /\ LegacyIdle /\ WorkIdle /\ ForecastIdle /\ RenderIdle

NextWork ==
  /\ \/ WorkReceive
     \/ WorkGotLastBlock
     \/ WorkGotUnpaidCount
     \/ WorkGotDetailed
     \/ WorkRespond
     \/ BlockMined
     \/ \E n \in Names : NamePurchased(n)
  /\ UNCHANGED <<wsVars, addresses, transactions, nextId, txn, lastCommit,
                 legacyVars, fcVars, renderVars>>

SpecWork == InitWork /\ [][NextWork]_vars

\* The payload's unpaid and base_value are those of the state it is sent in.
PayloadIsCurrent ==
  workReq.pc = "responded" =>
    /\ workReq.payload.base_value = getBaseBlockValue(workReq.sentAt.lastBlock)
    /\ workReq.payload.unpaid = workReq.sentAt.unpaid

\* C5: in every /work/detailed payload block_value == base_value + unpaid,
\* base_value being the base value of the last block's id and unpaid the
\* number of names with a positive countdown at the time of the response,
\* also when blocks are mined or names bought while the request is served.
C5_BlockValueAtResponse ==
  /\ PayloadIsCurrent
  /\ workReq.pc = "responded" =>
       workReq.payload.block_value =
         getBaseBlockValue(workReq.sentAt.lastBlock) + workReq.sentAt.unpaid

RECURSIVE SumPositive(_)
\* The sum of count over the groups whose countdown is above 0.
SumPositive(groups) ==
  IF groups = << >> THEN 0
  ELSE (IF Head(groups).unpaid > 0 THEN Head(groups).count ELSE 0)
         + SumPositive(Tail(groups))

\* C10: a /work/detailed response reflects one snapshot of the name state:
\* unpaid is the sum of count over the positive-countdown groups decrease was
\* computed from, and unpaid is 0 exactly when decrease is all zeros.
C10_OneSnapshot ==
  workReq.pc = "responded" =>
    /\ workReq.payload.unpaid = SumPositive(workReq.detailedUnpaid)
    /\ (workReq.payload.unpaid = 0) <=>
         (workReq.payload.decrease = [value |-> 0, blocks |-> 0, reset |-> 0])

(***************************************************************************)
(* SpecForecast: the decrease computation on any getDetailedUnpaid result  *)
(***************************************************************************)
Groups == [unpaid : 0..MaxCountdown, count : 1..MaxCount]

\* Results of getDetailedUnpaid: one group per countdown value, any order.
GroupLists(k) ==
  {sq \in [1..k -> Groups] :
     \A i, j \in 1..k : i # j => sq[i].unpaid # sq[j].unpaid}

InitForecast ==
  /\ WsIdle /\ LedgerIdle /\ LegacyIdle /\ WorkIdle /\ RenderIdle
  /\ \E k \in 0..MaxGroups : du \in GroupLists(k)
  /\ decrease = Uncomputed

Forecast ==
  /\ decrease = Uncomputed
  /\ decrease' = Decrease(du)
  /\ UNCHANGED du

NextForecast ==
  /\ Forecast
  /\ UNCHANGED <<wsVars, ledgerVars, legacyVars, workVars, renderVars>>

SpecForecast == InitForecast /\ [][NextForecast]_vars

\* NameEconomics.decreaseForecast() over the groups with a positive countdown.
decreaseForecast(groups) ==
  LET D == {i \in DOMAIN groups : groups[i].unpaid > 0}
  IN IF D = {} THEN [value |-> 0, blocks |-> 0, reset |-> 0]
     ELSE LET m == CHOOSE i \in D : \A j \in D : groups[i].unpaid <= groups[j].unpaid
              r == CHOOSE i \in D : \A j \in D : groups[i].unpaid >= groups[j].unpaid
          IN [value |-> groups[m].count, blocks |-> groups[m].unpaid,
              reset |-> groups[r].unpaid]

\* C2: the decrease object equals decreaseForecast for every result of
\* getDetailedUnpaid, in any order and with groups of countdown 0: zeros when
\* no countdown is positive, else blocks = the least positive countdown,
\* value = the count of that group, reset = the greatest countdown.
C2_DecreaseIsForecast ==
  decrease # Uncomputed => decrease = decreaseForecast(du)

(***************************************************************************)
(* SpecRender: the listtx loop on resolved rows                            *)
(***************************************************************************)
ListedAddress == "a5dfb396d3"

\* Shapes of the rows that name the listed address.
RowShapes ==
  {sh \in [from : AddressIds \cup {NULL}, to : AddressIds \cup NameMarkers,
            type : Types] :
     sh.from = ListedAddress \/ sh.to = ListedAddress}

\* Rows as getTransactionsByAddress resolves them: most recent first.
RowList(sq) ==
  [i \in DOMAIN sq |->
     Tx(Len(sq) - i + 1, sq[i].from, sq[i].to, 75, sq[i].type,
        IF sq[i].type \in {"mined", "transfer"} THEN NoName ELSE 1)]

InitRender ==
  /\ WsIdle /\ LedgerIdle /\ LegacyIdle /\ WorkIdle /\ ForecastIdle
  /\ \E k \in 1..MaxRows, wantId \in BOOLEAN :
       \E sq \in [1..k -> RowShapes] :
         listing = [pc |-> "forEach", address |-> ListedAddress,
                    wantId |-> wantId, rows |-> RowList(sq), i |-> 0]
  /\ out = ""

\* One call of the forEach callback.
RenderNext ==
  /\ listing.pc = "forEach"
  /\ listing.i < Len(listing.rows)
  /\ out' = out \o RenderRow(listing.rows[listing.i + 1], listing.address,
                              listing.wantId)
  /\ listing' = [listing EXCEPT !.i = @ + 1]

\* out += "end"
RenderEnd ==
  /\ listing.pc = "forEach"
  /\ listing.i = Len(listing.rows)
  /\ out' = out \o "end"
  /\ listing' = [listing EXCEPT !.pc = "end"]

NextRender ==
  /\ RenderNext \/ RenderEnd
  /\ UNCHANGED <<wsVars, ledgerVars, legacyVars, workVars, fcVars>>

SpecRender == InitRender /\ [][NextRender]_vars

\* Width of one record: time 12, peer 10, sign 1, value 8, id 8.
RecordWidth == IF listing.wantId THEN 39 ELSE 31

RecordAt(j) == SubSeq(out, (j - 1) * RecordWidth + 1, j * RecordWidth)

PeerAt(j) == SubSeq(RecordAt(j), 13, 22)

SignAt(j) == SubSeq(RecordAt(j), 23, 23)

Real(x) == x \in AddressIds

\* The peer field of every rendered record: the counterpart's id when both
\* ends are real addresses, N/A(Mined) without a real sender, N/A(Names)
\* without a real recipient.
PeerFields ==
  \A j \in 1..listing.i :
    LET t == listing.rows[j]
        counterpart == IF t.to = listing.address THEN t.from ELSE t.to
    IN /\ (Real(t.from) /\ Real(t.to)) => PeerAt(j) = counterpart
       /\ ~Real(t.from) => PeerAt(j) = "N/A(Mined)"
       /\ ~Real(t.to) => PeerAt(j) = "N/A(Names)"

PeerKindAt(j) ==
  IF PeerAt(j) = "N/A(Mined)" THEN "mined"
  ELSE IF PeerAt(j) = "N/A(Names)" THEN "names"
  ELSE "real"

====
